---------------------------- MODULE Spec2Model ----------------------------
(***************************************************************************)
(* A model of scripts/grok_api.py: one invocation of the command line      *)
(* client, from argument parsing to process exit.                          *)
(*                                                                         *)
(* Text is a sequence of characters.  A character is a TLA+ string; the    *)
(* literals the program's regular expressions and prefixes look for are    *)
(* kept as single characters ("src=", "https://", ".mp4", "poster=",       *)
(* "data:", "[DONE]", MARKER), every other character is an ordinary one.   *)
(* Bytes received from the server are sequences of tokens: a token is      *)
(* either a run of raw characters, one well-formed JSON document, or a     *)
(* byte that is no UTF-8.                                                  *)
(***************************************************************************)
EXTENDS Naturals, Sequences, FiniteSets, TLC

VARIABLES
    cmd,           \* args.cmd: the subcommand
    argKey,        \* args.key: <<>> (flag absent, None) or <<k>>
    envKey,        \* os.environ["GROK_API_KEY"]: <<>> (unset) or <<k>>
    streamFlag,    \* args.stream
    fileState,     \* what open()/json.load() of args.messages_file meets
    server,        \* what the remote endpoint answers to a request
    pc,            \* the position of the invocation
    key,           \* the key get_key returned
    requests,      \* the HTTP requests issued so far, in order
    fileOpens,     \* the number of open() calls on the messages file
    result,        \* the decoded JSON body (non-streaming)
    pos,           \* the number of response lines the for loop has consumed
    full,          \* cmd_video: the bytes accumulated so far
    last_progress, \* cmd_video: the last progress text printed
    stdout,        \* what was written to standard output
    stderr,        \* what was written to the error stream
    exitCode       \* <<>> while running, <<c>> once the process has exited

vars == <<cmd, argKey, envKey, streamFlag, fileState, server, pc, key, requests,
          fileOpens, result, pos, full, last_progress, stdout, stderr, exitCode>>

---------------------------------------------------------------------------
(* Bounds of the model *)

\* the longest streamed response, in lines
MaxLines == 3
\* the longest streamed response of the video command, in lines
MaxVideoLines == 3
\* the longest model listing
MaxModels == 2

---------------------------------------------------------------------------
(* Characters and text *)

SP == " "
NL == "\n"
QUOTE == "\""
BACKSLASH == "\\"
SRC == "src="
HTTPS == "https://"
MP4 == ".mp4"
POSTER == "poster="
DATA == "data:"
DONE == "[DONE]"
\* the literal progress marker of cmd_video
MARKER == "PROGRESS"
\* what decode(errors="replace") leaves of a byte that is no UTF-8
REPLACEMENT == "U+FFFD"

Whitespace == {SP, NL}

RECURSIVE Flatten(_)
Flatten(ss) == IF ss = <<>> THEN <<>> ELSE Head(ss) \o Flatten(Tail(ss))

RECURSIVE LStrip(_)
LStrip(s) == IF s # <<>> /\ Head(s) \in Whitespace THEN LStrip(Tail(s)) ELSE s

RECURSIVE RStrip(_)
RStrip(s) ==
    IF s # <<>> /\ s[Len(s)] \in Whitespace
    THEN RStrip(SubSeq(s, 1, Len(s) - 1))
    ELSE s

\* str.strip()
Strip(s) == RStrip(LStrip(s))

\* str.startswith(p)
StartsWith(s, p) == Len(s) >= Len(p) /\ SubSeq(s, 1, Len(p)) = p

\* s[n:]
DropFirst(s, n) == SubSeq(s, n + 1, Len(s))

\* str.removeprefix(p)
RemovePrefix(s, p) == IF StartsWith(s, p) THEN DropFirst(s, Len(p)) ELSE s

\* s[-n:]
LastChars(s, n) == IF Len(s) <= n THEN s ELSE SubSeq(s, Len(s) - n + 1, Len(s))

\* x in s
Contains(s, x) == \E i \in 1..Len(s) : s[i] = x

\* the "data: " prefix: the word and one space
DATA_PREFIX == <<DATA, SP>>

---------------------------------------------------------------------------
(* Bytes, decoding and JSON *)

\* a run of raw characters that is (part of) no JSON document
Raw(chars) == [t |-> "raw", k |-> "", c |-> chars, ids |-> <<>>]
\* a byte that is no UTF-8
BadByte == [t |-> "bad", k |-> "", c |-> <<>>, ids |-> <<>>]
\* one well-formed JSON document, by its shape:
\*   "completion"  {"choices": [{"message": {"content": c}}]}
\*   "delta"       {"choices": [{"delta": {"content": c}}]}
\*   "delta_empty" {"choices": [{"delta": {}}]}
\*   "delta_null"  {"choices": [{"delta": {"content": null}}]}
\*   "models"      {"data": [m, ...]}, m = {"id": id} or {} (no id)
\*   "object"      {"error": ...}: an object with neither choices nor data
\*   "array"       []
Json(k, c, ids) == [t |-> "json", k |-> k, c |-> c, ids |-> ids]

ModelEntry(id) == [has_id |-> TRUE, id |-> id]
NoIdEntry == [has_id |-> FALSE, id |-> <<>>]

\* json.dumps of a string's characters, as the server wrote them
EscapeChar(ch) ==
    IF ch = QUOTE THEN <<BACKSLASH, QUOTE>>
    ELSE IF ch = BACKSLASH THEN <<BACKSLASH, BACKSLASH>>
    ELSE IF ch = NL THEN <<BACKSLASH, "n">>
    ELSE <<ch>>

RECURSIVE Escape(_)
Escape(s) == IF s = <<>> THEN <<>> ELSE EscapeChar(Head(s)) \o Escape(Tail(s))

RECURSIVE IdsText(_)
IdsText(ids) ==
    IF ids = <<>> THEN <<>>
    ELSE (IF Head(ids).has_id
          THEN <<"{", QUOTE, "id", QUOTE, ":", QUOTE>> \o Escape(Head(ids).id)
                   \o <<QUOTE, "}">>
          ELSE <<"{", "}">>)
         \o IdsText(Tail(ids))

\* the characters of a JSON document on the wire
JsonText(j) ==
    LET open(name) == <<"{", QUOTE, "choices", QUOTE, ":", QUOTE, name, QUOTE, ":">>
    IN  CASE j.k = "completion" ->
               open("message") \o <<QUOTE, "content", QUOTE, ":", QUOTE>>
                   \o Escape(j.c) \o <<QUOTE, "}">>
          [] j.k = "delta" ->
               open("delta") \o <<QUOTE, "content", QUOTE, ":", QUOTE>>
                   \o Escape(j.c) \o <<QUOTE, "}">>
          [] j.k = "delta_empty" -> open("delta") \o <<"{", "}">>
          [] j.k = "delta_null" ->
               open("delta") \o <<QUOTE, "content", QUOTE, ":", "null", "}">>
          [] j.k = "models" ->
               <<"{", QUOTE, "data", QUOTE, ":", "[">> \o IdsText(j.ids) \o <<"]", "}">>
          [] j.k = "object" -> <<"{", QUOTE, "error", QUOTE, "}">>
          [] OTHER -> <<"[", "]">>

\* bytes.decode(): defined when no byte is bad
Decodable(bytes) == \A i \in 1..Len(bytes) : bytes[i].t # "bad"

\* bytes.decode(errors="replace"), and bytes.decode() where it is defined
TokenText(tok) ==
    CASE tok.t = "raw" -> tok.c
      [] tok.t = "json" -> JsonText(tok)
      [] OTHER -> <<REPLACEMENT>>

RECURSIVE DecodeReplace(_)
DecodeReplace(bytes) ==
    IF bytes = <<>> THEN <<>> ELSE TokenText(Head(bytes)) \o DecodeReplace(Tail(bytes))

\* The decoded text as the line parser sees it: raw characters one by one,
\* a JSON document as one item.
RECURSIVE Decode(_)
Decode(bytes) ==
    IF bytes = <<>> THEN <<>>
    ELSE (IF Head(bytes).t = "raw"
          THEN [i \in 1..Len(Head(bytes).c) |-> Raw(<<Head(bytes).c[i]>>)]
          ELSE <<Head(bytes)>>)
         \o Decode(Tail(bytes))

IsWs(item) == item.t = "raw" /\ item.c[1] \in Whitespace

RECURSIVE LStripItems(_)
LStripItems(s) == IF s # <<>> /\ IsWs(Head(s)) THEN LStripItems(Tail(s)) ELSE s

RECURSIVE RStripItems(_)
RStripItems(s) ==
    IF s # <<>> /\ IsWs(s[Len(s)])
    THEN RStripItems(SubSeq(s, 1, Len(s) - 1))
    ELSE s

\* str.strip() of decoded text
StripItems(s) == RStripItems(LStripItems(s))

\* the items of a literal text
Lit(chars) == [i \in 1..Len(chars) |-> Raw(<<chars[i]>>)]

\* json.loads(text): whitespace, one document, whitespace; anything else
\* raises JSONDecodeError
JsonValid(text) == LET body == StripItems(text) IN Len(body) = 1 /\ body[1].t = "json"
JsonLoads(text) == StripItems(text)[1]

\* data["choices"][0]["delta"] is there (no KeyError, TypeError)
HasDelta(j) == j.k \in {"delta", "delta_empty", "delta_null"}
\* data["choices"][0]["delta"].get("content", ""), printed: None prints as "None"
DeltaContent(j) == IF j.k = "delta" THEN j.c ELSE IF j.k = "delta_null" THEN <<"None">> ELSE <<>>
\* result["choices"][0]["message"]["content"] is there
HasMessage(j) == j.k = "completion"
\* result.get(...) is there: the document is an object
IsObject(j) == j.k # "array"
\* the listing is read from a key the response does not have
DataOf_WrongKey(j) == <<>>

\* result.get("data", [])
DataOf(j) == IF j.k = "models" THEN j.ids ELSE <<>>

---------------------------------------------------------------------------
(* Regular expressions *)

Min(S) == CHOOSE m \in S : \A n \in S : m <= n

\* the first position from `from` on that holds a character of `stop`, or 0
FirstStop(s, from, stop) ==
    LET ks == {k \in from..Len(s) : s[k] \in stop}
    IN  IF ks = {} THEN 0 ELSE Min(ks)

\* The group of   pre ( head [^stop]+ suf ) post   matched at position i, or
\* <<>> when it does not match there.  post starts with a character of stop
\* and suf holds none, so the run ends at the first stop character.
GroupAt(s, i, pre, head, stop, suf, post) ==
    LET g == i + Len(pre)
        r == g + Len(head)
        k == FirstStop(s, r, stop)
    IN  IF /\ r - 1 <= Len(s)
           /\ SubSeq(s, i, r - 1) = pre \o head
           /\ k # 0
           /\ k - Len(suf) >= r + 1
           /\ SubSeq(s, k - Len(suf), k - 1) = suf
           /\ k + Len(post) - 1 <= Len(s)
           /\ SubSeq(s, k, k + Len(post) - 1) = post
        THEN SubSeq(s, g, k - 1)
        ELSE <<>>

\* re.search: the group of the leftmost match, or <<>> (None)
ReSearch(s, pre, head, stop, suf, post) ==
    LET starts == {i \in 1..Len(s) : GroupAt(s, i, pre, head, stop, suf, post) # <<>>}
    IN  IF starts = {} THEN <<>>
        ELSE GroupAt(s, Min(starts), pre, head, stop, suf, post)

\* re.search(r'src=\\"(https://[^"\\]+\.mp4)\\"', s)
SearchVideoEscaped(s) ==
    ReSearch(s, <<SRC, BACKSLASH, QUOTE>>, <<HTTPS>>, {QUOTE, BACKSLASH},
             <<MP4>>, <<BACKSLASH, QUOTE>>)

\* re.search(r'src="(https://[^"]+\.mp4)"', s)
SearchVideoPlain(s) ==
    ReSearch(s, <<SRC, QUOTE>>, <<HTTPS>>, {QUOTE}, <<MP4>>, <<QUOTE>>)

\* re.search(r'poster=\\"(https://[^"\\]+)\\"', s)
SearchPoster(s) ==
    ReSearch(s, <<POSTER, BACKSLASH, QUOTE>>, <<HTTPS>>, {QUOTE, BACKSLASH},
             <<>>, <<BACKSLASH, QUOTE>>)

\* re.search(r'src="([^"]+)"', s)
SearchImage(s) == ReSearch(s, <<SRC, QUOTE>>, <<>>, {QUOTE}, <<>>, <<QUOTE>>)

---------------------------------------------------------------------------
(* Program constants and messages *)

BASE_URL == "https://mc.agaii.org/grok/v1"
DEFAULT_MODEL == "grok-3"
IMAGE_MODEL == "grok-imagine-1.0"
VIDEO_MODEL == "grok-imagine-1.0-video"
\* full_str[-500:]
TailLen == 500

ERR_NO_KEY == "ERROR: No API key. Set GROK_API_KEY env var or pass --key <key>"
MSG_GENERATING == "Generating video (this takes 20-90 seconds)..."
MSG_NO_URL == "Could not extract video URL. Raw output:"
\* what the interpreter writes for an exception nothing catches (it then
\* exits with code 1)
TRACEBACK == "Traceback (most recent call last):"

Commands == {"chat", "file", "models", "verify", "image", "video"}

---------------------------------------------------------------------------
(* get_key and make_request *)

\* the truth value of an optional string: None and "" are false
Truthy(opt) == opt # <<>> /\ opt[1] # ""

\* the environment variable wins over the flag
ResolveKey_EnvFirst(arg, env) ==
    IF Truthy(env) THEN env[1]
    ELSE IF arg # <<>> THEN arg[1]
    ELSE ""

\* getattr(args, "key", None) or os.environ.get("GROK_API_KEY", "")
ResolveKey(arg, env) ==
    IF Truthy(arg) THEN arg[1]
    ELSE IF env # <<>> THEN env[1]
    ELSE ""

\* `if key is None` in place of `if not key`: a string is never None
KeyMissing_NoneOnly(k) == FALSE

\* if not key
KeyMissing(k) == k = ""

\* the payload each command hands to make_request: <<>> is None
Payload(c, stream) ==
    CASE c \in {"chat", "file"} ->
           <<[model |-> DEFAULT_MODEL, stream |-> <<stream>>]>>
      [] c = "image" -> <<[model |-> IMAGE_MODEL, stream |-> <<>>]>>
      [] c = "video" -> <<[model |-> VIDEO_MODEL, stream |-> <<>>]>>
      [] OTHER -> <<>>

\* the path each command requests
Path(c) == IF c \in {"models", "verify"} THEN "/models" ELSE "/chat/completions"

\* the stream argument each command passes
StreamArg(c, stream) == (c = "video") \/ (c \in {"chat", "file"} /\ stream)

\* every request is posted
Method_AlwaysPost(payload) == "POST"

\* method="POST" if data else "GET"
Method(payload) == IF payload # <<>> THEN "POST" ELSE "GET"

\* the urllib.request.Request make_request builds
Request(path, k, payload) ==
    [url |-> <<BASE_URL, path>>,
     method |-> Method(payload),
     authorization |-> <<"Bearer", SP, k>>,
     content_type |-> "application/json",
     data |-> payload]

\* only 200 counts as success
Is2xx_Only200(status) == status = 200

\* urlopen returns for these statuses and raises HTTPError for the others
Is2xx(status) == 200 <= status /\ status < 300

---------------------------------------------------------------------------
(* The streaming loops, one line at a time *)

Step(act, text) == [act |-> act, text |-> text]

\* the delta is stripped before it is printed
ChatLine_StripDelta(line) ==
    IF ~Decodable(line) THEN Step("crash", <<>>)
    ELSE LET text == StripItems(Decode(line))
             chunk == DropFirst(text, Len(DATA_PREFIX))
         IN  IF ~StartsWith(text, Lit(DATA_PREFIX)) THEN Step("skip", <<>>)
             ELSE IF chunk = Lit(<<DONE>>) THEN Step("done", <<NL>>)
             ELSE IF ~JsonValid(chunk) THEN Step("skip", <<>>)
             ELSE IF ~HasDelta(JsonLoads(chunk)) THEN Step("crash", <<>>)
             ELSE Step("print", Strip(DeltaContent(JsonLoads(chunk))))

\* JSONDecodeError is not caught
ChatLine_NoExcept(line) ==
    IF ~Decodable(line) THEN Step("crash", <<>>)
    ELSE LET text == StripItems(Decode(line))
             chunk == DropFirst(text, Len(DATA_PREFIX))
         IN  IF ~StartsWith(text, Lit(DATA_PREFIX)) THEN Step("skip", <<>>)
             ELSE IF chunk = Lit(<<DONE>>) THEN Step("done", <<NL>>)
             ELSE IF ~JsonValid(chunk) THEN Step("crash", <<>>)
             ELSE IF ~HasDelta(JsonLoads(chunk)) THEN Step("crash", <<>>)
             ELSE Step("print", DeltaContent(JsonLoads(chunk)))

\* the sentinel prints the newline and the loop goes on (no break)
ChatLine_NoBreak(line) ==
    IF ~Decodable(line) THEN Step("crash", <<>>)
    ELSE LET text == StripItems(Decode(line))
             chunk == DropFirst(text, Len(DATA_PREFIX))
         IN  IF ~StartsWith(text, Lit(DATA_PREFIX)) THEN Step("skip", <<>>)
             ELSE IF chunk = Lit(<<DONE>>) THEN Step("print", <<NL>>)
             ELSE IF ~JsonValid(chunk) THEN Step("skip", <<>>)
             ELSE IF ~HasDelta(JsonLoads(chunk)) THEN Step("crash", <<>>)
             ELSE Step("print", DeltaContent(JsonLoads(chunk)))

\* cmd_chat, cmd_file: the body of `for line in resp`
ChatLine(line) ==
    IF ~Decodable(line) THEN Step("crash", <<>>)
    ELSE LET text == StripItems(Decode(line))
             chunk == DropFirst(text, Len(DATA_PREFIX))
         IN  IF ~StartsWith(text, Lit(DATA_PREFIX)) THEN Step("skip", <<>>)
             ELSE IF chunk = Lit(<<DONE>>) THEN Step("done", <<NL>>)
             ELSE IF ~JsonValid(chunk) THEN Step("skip", <<>>)
             ELSE IF ~HasDelta(JsonLoads(chunk)) THEN Step("crash", <<>>)
             ELSE Step("print", DeltaContent(JsonLoads(chunk)))

\* "<marker>" in line_str
HasMarker(text) == \E i \in 1..Len(text) : Contains(TokenText(text[i]), MARKER)

\* cmd_video: the body of `for line in resp` after `full += line`
VideoLine(line, last) ==
    IF ~Decodable(line) THEN Step("crash", last)
    ELSE LET line_str == StripItems(Decode(line))
             chunk == RemovePrefix(line_str, Lit(DATA_PREFIX))
             content == JsonLoads(chunk).c
         IN  IF ~HasMarker(line_str) THEN Step("skip", last)
             ELSE IF ~JsonValid(chunk) THEN Step("skip", last)
             ELSE IF JsonLoads(chunk).k # "delta" THEN Step("skip", last)
             ELSE IF Strip(content) # <<>> /\ content # last
                  THEN Step("print", Strip(content))
                  ELSE Step("skip", last)

---------------------------------------------------------------------------
(* What each command prints *)

Out(code, out, err) == [code |-> code, out |-> out, err |-> err]
Uncaught(out) == Out(<<1>>, out, <<TRACEBACK, NL>>)

\* print(result["choices"][0]["message"]["content"])
PrintCompletion(res) ==
    IF HasMessage(res) THEN Out(<<0>>, res.c \o <<NL>>, <<>>) ELSE Uncaught(<<>>)

RECURSIVE PrintIds(_, _)
PrintIds(entries, indent) ==
    IF entries = <<>> THEN <<>>
    ELSE indent \o Head(entries).id \o <<NL>> \o PrintIds(Tail(entries), indent)

\* the entries before the first one that has no "id"
RECURSIVE WithId(_)
WithId(entries) ==
    IF entries = <<>> \/ ~Head(entries).has_id THEN <<>>
    ELSE <<Head(entries)>> \o WithId(Tail(entries))

\* cmd_models: for m in result.get("data", []): print(m["id"])
PrintModels(res) ==
    IF ~IsObject(res) THEN Uncaught(<<>>)
    ELSE IF WithId(DataOf(res)) # DataOf(res)
         THEN Uncaught(PrintIds(WithId(DataOf(res)), <<>>))
         ELSE Out(<<0>>, PrintIds(DataOf(res), <<>>), <<>>)

\* cmd_verify
PrintVerify(res) ==
    IF ~IsObject(res) \/ WithId(DataOf(res)) # DataOf(res) THEN Uncaught(<<>>)
    ELSE Out(<<0>>,
             <<"OK - ", ToString(Len(DataOf(res))), " models available", NL>>
                 \o PrintIds(DataOf(res), <<SP, SP>>),
             <<>>)

\* cmd_image
PrintImage(res) ==
    IF ~HasMessage(res) THEN Uncaught(<<>>)
    ELSE IF SearchImage(res.c) # <<>>
         THEN Out(<<0>>, <<"Image URL:", SP>> \o SearchImage(res.c) \o <<NL>>, <<>>)
         ELSE Out(<<0>>, res.c \o <<NL>>, <<>>)

\* cmd_video, after the loop
PrintVideo(bytes) ==
    LET full_str == DecodeReplace(bytes)
        url == IF SearchVideoEscaped(full_str) # <<>>
               THEN SearchVideoEscaped(full_str)
               ELSE SearchVideoPlain(full_str)
        img == SearchPoster(full_str)
    IN  Out(<<0>>,
            (IF url # <<>> THEN <<"Video URL:", SP>> \o url \o <<NL>> ELSE <<>>)
                \o (IF img # <<>> THEN <<"Preview URL:", SP>> \o img \o <<NL>> ELSE <<>>),
            <<NL>> \o (IF url # <<>> THEN <<>>
                       ELSE <<MSG_NO_URL, NL>> \o LastChars(full_str, TailLen) \o <<NL>>))

Render(c, res) ==
    CASE c \in {"chat", "file"} -> PrintCompletion(res)
      [] c = "models" -> PrintModels(res)
      [] c = "verify" -> PrintVerify(res)
      [] OTHER -> PrintImage(res)

---------------------------------------------------------------------------
(* Inputs: the command line, the environment, the messages file and the   *)
(* answers of the remote endpoint                                          *)

SeqsUpTo(S, n) == UNION {[1..m -> S] : m \in 0..n}

Keys == {"", "k1", "k2"}
KeyOptions == {<<>>} \cup {<<k>> : k \in Keys}

Answer(status, body) == [reach |-> TRUE, status |-> status, body |-> body]
\* no connection: urlopen raises URLError
Unreachable == [reach |-> FALSE, status |-> 0, body |-> <<>>]

DataLine(doc) == <<Raw(DATA_PREFIX), doc, Raw(<<NL>>)>>
Delta(c) == Json("delta", c, <<>>)
DoneLine == <<Raw(<<DATA, SP, DONE, NL>>)>>

\* lines of a streamed chat completion
StreamLines ==
    { DataLine(Delta(<<"a">>)),
      DataLine(Delta(<<SP, "b">>)),
      DoneLine,
      \* a truncated document: no JSON
      <<Raw(<<DATA, SP, "{", QUOTE, "cho", NL>>)>>,
      \* the sentinel after two spaces: neither the sentinel nor JSON
      <<Raw(<<DATA, SP, SP, DONE, NL>>)>>,
      \* the separator line of an event stream
      <<Raw(<<NL>>)>>,
      \* a document on a line without the prefix, and one without the space
      <<Delta(<<"c">>), Raw(<<NL>>)>>,
      <<Raw(<<DATA>>), Delta(<<"c">>), Raw(<<NL>>)>>,
      \* an indented data line
      <<Raw(<<SP, DATA, SP>>), Delta(<<"d">>), Raw(<<NL>>)>>,
      DataLine(Json("delta_empty", <<>>, <<>>)),
      DataLine(Json("delta_null", <<>>, <<>>)),
      \* well-formed JSON of another shape, and bytes that are no UTF-8
      DataLine(Json("object", <<>>, <<>>)),
      <<Raw(DATA_PREFIX), BadByte, Raw(<<NL>>)>> }

\* lines of a streamed video generation
VideoLines ==
    { DataLine(Delta(<<MARKER, "1">>)),
      DataLine(Delta(<<MARKER, "1", SP>>)),
      DataLine(Delta(<<MARKER, "2">>)),
      DataLine(Delta(<<"<", SRC, QUOTE, HTTPS, "u", MP4, QUOTE, ">">>)),
      DataLine(Delta(<<POSTER, QUOTE, HTTPS, "p", QUOTE>>)),
      <<Raw(<<SRC, QUOTE, HTTPS, "v", MP4, QUOTE, NL>>)>>,
      <<Raw(<<SRC, QUOTE, HTTPS, "w", NL>>)>>,
      <<Raw(<<MP4, QUOTE, NL>>)>>,
      <<BadByte, Raw(<<NL>>)>> }

ModelEntries == {ModelEntry(<<"g", "3">>), ModelEntry(<<"m">>), NoIdEntry}

Completion(c) == <<<<Json("completion", c, <<>>), Raw(<<NL>>)>>>>

\* bodies of a model listing
ModelBodies ==
    {<<<<Json("models", <<>>, ids)>>>> : ids \in SeqsUpTo(ModelEntries, MaxModels)}
    \cup {<<<<Json("object", <<>>, <<>>)>>>>, <<<<Json("array", <<>>, <<>>)>>>>}

\* bodies of a non-streamed completion
CompletionBodies ==
    { Completion(<<"h", "i">>),
      Completion(<<"<", "img", SP, SRC, QUOTE, HTTPS, "x", ".png", QUOTE, ">">>),
      Completion(<<SRC, QUOTE, QUOTE>>),
      <<<<Json("object", <<>>, <<>>)>>>>,
      <<<<Raw(<<"<", "html", ">">>)>>>>,
      <<>> }

\* a few answers of every kind, for the runs that vary the command line
FewAnswers ==
    { Unreachable,
      Answer(401, <<<<Raw(<<"denied", NL>>)>>>>),
      Answer(500, <<<<BadByte>>>>),
      Answer(204, <<>>),
      Answer(200, Completion(<<"h", "i">>)),
      Answer(200, <<<<Json("models", <<>>, <<ModelEntry(<<"m">>)>>)>>>>),
      Answer(200, <<DataLine(Delta(<<"a">>)), DoneLine>>) }

InitRun ==
    /\ pc = "get_key"
    /\ key = ""
    /\ requests = <<>>
    /\ fileOpens = 0
    /\ result = <<>>
    /\ pos = 0
    /\ full = <<>>
    /\ last_progress = <<>>
    /\ stdout = <<>>
    /\ stderr = <<>>
    /\ exitCode = <<>>

\* every command under every key configuration, with a few answers
InitCli ==
    /\ cmd \in Commands
    /\ argKey \in KeyOptions
    /\ envKey \in KeyOptions
    /\ streamFlag \in (IF cmd \in {"chat", "file"} THEN BOOLEAN ELSE {FALSE})
    /\ fileState \in (IF cmd = "file" THEN {"ok", "missing", "badjson"} ELSE {"ok"})
    /\ server \in FewAnswers

\* chat and file with --stream, over every short stream
InitStream ==
    /\ cmd \in {"chat", "file"}
    /\ argKey = <<>>
    /\ envKey = <<"k1">>
    /\ streamFlag = TRUE
    /\ fileState = "ok"
    /\ server \in {Answer(200, b) : b \in SeqsUpTo(StreamLines, MaxLines)}

\* the non-streaming commands, over every short body
InitBody ==
    /\ cmd \in {"chat", "file", "image", "models", "verify"}
    /\ argKey = <<"k2">>
    /\ envKey = <<>>
    /\ streamFlag = FALSE
    /\ fileState = "ok"
    /\ server \in {Answer(200, b) :
                     b \in IF cmd \in {"models", "verify"} THEN ModelBodies
                           ELSE CompletionBodies}

\* video, over every short stream
InitVideo ==
    /\ cmd = "video"
    /\ argKey = <<"k2">>
    /\ envKey = <<"k1">>
    /\ streamFlag = FALSE
    /\ fileState = "ok"
    /\ server \in {Answer(200, b) : b \in SeqsUpTo(VideoLines, MaxVideoLines)}

Init == InitRun /\ (InitCli \/ InitStream \/ InitBody \/ InitVideo)

---------------------------------------------------------------------------
(* The invocation, step by step *)

\* the process exits: sys.exit, an uncaught exception, or main returning
Finish(o) ==
    /\ pc' = "exit"
    /\ exitCode' = o.code
    /\ stdout' = stdout \o o.out
    /\ stderr' = stderr \o o.err

Goto(p) == pc' = p /\ UNCHANGED <<exitCode, stdout, stderr>>

input == <<cmd, argKey, envKey, streamFlag, fileState, server>>

\* key = get_key(args), the first statement of every command
get_key ==
    /\ pc = "get_key"
    /\ IF KeyMissing(ResolveKey(argKey, envKey))
       THEN Finish(Out(<<1>>, <<>>, <<ERR_NO_KEY, NL>>)) /\ key' = key
       ELSE Goto("prepare") /\ key' = ResolveKey(argKey, envKey)
    /\ UNCHANGED <<input, requests, fileOpens, result, pos, full, last_progress>>

\* what a command does between get_key and make_request: cmd_file opens and
\* loads the messages file, cmd_video announces the wait
prepare ==
    /\ pc = "prepare"
    /\ fileOpens' = IF cmd = "file" THEN fileOpens + 1 ELSE fileOpens
    /\ IF cmd = "file" /\ fileState # "ok" THEN Finish(Uncaught(<<>>))
       ELSE IF cmd = "video"
            THEN /\ pc' = "request"
                 /\ stderr' = stderr \o <<MSG_GENERATING, NL>>
                 /\ UNCHANGED <<exitCode, stdout>>
            ELSE Goto("request")
    /\ UNCHANGED <<input, key, requests, result, pos, full, last_progress>>

\* the bytes of the whole body: resp.read(), e.read()
Body == Flatten(server.body)

make_request ==
    /\ pc = "request"
    /\ requests' = Append(requests, Request(Path(cmd), key, Payload(cmd, streamFlag)))
    /\ IF ~server.reach THEN Finish(Uncaught(<<>>)) /\ result' = result
       ELSE IF ~Is2xx(server.status)
            THEN /\ result' = result
                 /\ IF Decodable(Body)
                    THEN Finish(Out(<<1>>, <<>>,
                                    <<"HTTP ", ToString(server.status), ": ">>
                                        \o DecodeReplace(Body) \o <<NL>>))
                    ELSE Finish(Uncaught(<<>>))
       ELSE IF StreamArg(cmd, streamFlag)
            THEN Goto(IF cmd = "video" THEN "video" ELSE "stream") /\ result' = result
       ELSE IF Decodable(Body) /\ JsonValid(Decode(Body))
            THEN Goto("render") /\ result' = <<JsonLoads(Decode(Body))>>
            ELSE Finish(Uncaught(<<>>)) /\ result' = result
    /\ UNCHANGED <<input, key, fileOpens, pos, full, last_progress>>

\* the non-streaming commands print the decoded body
render ==
    /\ pc = "render"
    /\ Finish(Render(cmd, result[1]))
    /\ UNCHANGED <<input, key, requests, fileOpens, result, pos, full, last_progress>>

\* cmd_chat, cmd_file: one iteration of `for line in resp`
stream_line ==
    /\ pc = "stream"
    /\ pos < Len(server.body)
    /\ pos' = pos + 1
    /\ LET st == ChatLine(server.body[pos + 1])
       IN  CASE st.act = "crash" -> Finish(Uncaught(<<>>))
             [] st.act = "done" -> Finish(Out(<<0>>, st.text, <<>>))
             [] st.act = "print" ->
                  /\ stdout' = stdout \o st.text
                  /\ UNCHANGED <<pc, exitCode, stderr>>
             [] OTHER -> UNCHANGED <<pc, exitCode, stdout, stderr>>
    /\ UNCHANGED <<input, key, requests, fileOpens, result, full, last_progress>>

\* cmd_chat, cmd_file: the response ends without a sentinel
stream_end ==
    /\ pc = "stream"
    /\ pos = Len(server.body)
    /\ Finish(Out(<<0>>, <<>>, <<>>))
    /\ UNCHANGED <<input, key, requests, fileOpens, result, pos, full, last_progress>>

\* cmd_video: one iteration of `for line in resp`
video_line ==
    /\ pc = "video"
    /\ pos < Len(server.body)
    /\ pos' = pos + 1
    /\ full' = full \o server.body[pos + 1]
    /\ LET st == VideoLine(server.body[pos + 1], last_progress)
       IN  CASE st.act = "crash" ->
                  Finish(Uncaught(<<>>)) /\ last_progress' = last_progress
             [] st.act = "print" ->
                  /\ last_progress' = st.text
                  /\ stderr' = stderr \o <<"\r">> \o st.text
                  /\ UNCHANGED <<pc, exitCode, stdout>>
             [] OTHER -> UNCHANGED <<pc, exitCode, stdout, stderr, last_progress>>
    /\ UNCHANGED <<input, key, requests, fileOpens, result>>

\* cmd_video: after the loop
video_end ==
    /\ pc = "video"
    /\ pos = Len(server.body)
    /\ Finish(PrintVideo(full))
    /\ UNCHANGED <<input, key, requests, fileOpens, result, pos, full, last_progress>>

Next ==
    \/ get_key
    \/ prepare
    \/ make_request
    \/ render
    \/ stream_line
    \/ stream_end
    \/ video_line
    \/ video_end

Spec == Init /\ [][Next]_vars

---------------------------------------------------------------------------
(* Properties *)

EndsWith(s, t) == Len(s) >= Len(t) /\ SubSeq(s, Len(s) - Len(t) + 1, Len(s)) = t

PayloadCommands == {"chat", "file", "image", "video"}

\* the request was answered with a 2xx status
Answered2xx ==
    /\ requests # <<>>
    /\ server.reach
    /\ server.status \in 200..299

\* the request was answered with another status
HttpError ==
    /\ requests # <<>>
    /\ server.reach
    /\ server.status \notin 200..299

\* chat or file with --stream, reading its response
InStreamRun == cmd \in {"chat", "file"} /\ streamFlag /\ Answered2xx

\* the stripped text of a line
TextOf(line) == StripItems(Decode(line))

\* `data: ` and one JSON object that carries choices[0].delta.content
IsDeltaLine(line) ==
    /\ Decodable(line)
    /\ Len(TextOf(line)) = 3
    /\ SubSeq(TextOf(line), 1, 2) = <<Raw(<<DATA>>), Raw(<<SP>>)>>
    /\ TextOf(line)[3].t = "json"
    /\ TextOf(line)[3].k = "delta"

\* `data: [DONE]`
IsSentinel(line) ==
    /\ Decodable(line)
    /\ TextOf(line) = <<Raw(<<DATA>>), Raw(<<SP>>), Raw(<<DONE>>)>>

\* `data: ` and a remainder that is neither the sentinel nor valid JSON
IsBadChunk(line) ==
    /\ Decodable(line)
    /\ Len(TextOf(line)) >= 2
    /\ SubSeq(TextOf(line), 1, 2) = <<Raw(<<DATA>>), Raw(<<SP>>)>>
    /\ ~IsSentinel(line)
    /\ ~JsonValid(SubSeq(TextOf(line), 3, Len(TextOf(line))))

NotBadChunk(line) == ~IsBadChunk(line)

RECURSIVE ConcatContents(_)
ConcatContents(lines) ==
    IF lines = <<>> THEN <<>>
    ELSE TextOf(Head(lines))[3].c \o ConcatContents(Tail(lines))

\* what reading `lines` prints, and how the reading ends
RECURSIVE RunOf(_)
RunOf(lines) ==
    IF lines = <<>> THEN [out |-> <<>>, end |-> "running"]
    ELSE LET st == ChatLine(Head(lines))
             rest == RunOf(Tail(lines))
         IN  CASE st.act = "crash" -> [out |-> <<>>, end |-> "crash"]
               [] st.act = "done" -> [out |-> st.text, end |-> "done"]
               [] st.act = "print" -> [out |-> st.text \o rest.out, end |-> rest.end]
               [] OTHER -> rest

\* C1: with no --key and GROK_API_KEY unset or empty, every subcommand exits
\* with code 1 and the error on the error stream, having issued no request
\* and (file) not opened the messages file.
C1_NoKeyFailsBeforeAnyRequest ==
    (argKey = <<>> /\ envKey \in {<<>>, <<"">>}) =>
        /\ requests = <<>>
        /\ fileOpens = 0
        /\ stdout = <<>>
        /\ pc \in {"get_key", "exit"}
        /\ pc = "exit" => exitCode = <<1>> /\ stderr = <<ERR_NO_KEY, NL>>

C1_Witness ==
    /\ pc = "exit"
    /\ cmd = "file"
    /\ argKey = <<>>
    /\ envKey = <<"">>
    /\ exitCode = <<1>>
    /\ stderr = <<ERR_NO_KEY, NL>>

\* C2: streaming chat and file, over a response of `data: ` lines carrying
\* delta.content and ended by `data: [DONE]`: standard output is the
\* contents in arrival order, then one newline at the sentinel.
C2_StreamPrintsDeltasInOrder ==
    LET body == server.body
        n == Len(body)
    IN  ( /\ InStreamRun
          /\ n >= 1
          /\ IsSentinel(body[n])
          /\ \A i \in 1..(n - 1) : IsDeltaLine(body[i]) ) =>
            /\ pc = "stream" => stdout = ConcatContents(SubSeq(body, 1, pos))
            /\ pc = "exit" =>
                 /\ stdout = ConcatContents(SubSeq(body, 1, n - 1)) \o <<NL>>
                 /\ exitCode = <<0>>

C2_Witness ==
    /\ InStreamRun
    /\ pc = "exit"
    /\ Len(server.body) = 3
    /\ IsDeltaLine(server.body[1])
    /\ IsDeltaLine(server.body[2])
    /\ IsSentinel(server.body[3])
    /\ stdout = <<"a", SP, "b", NL>>

\* C3: streaming chat and file: a chunk that is no valid JSON is skipped: at
\* every point, what was printed and how the reading stands are what they
\* are for the same lines with those chunks left out.
C3_InvalidJsonChunkIsSkipped ==
    InStreamRun =>
        LET r == RunOf(SelectSeq(SubSeq(server.body, 1, pos), NotBadChunk))
        IN  /\ stdout = r.out
            /\ r.end = "running" =>
                 \/ pc = "stream"
                 \/ pc = "exit" /\ pos = Len(server.body) /\ exitCode = <<0>>
            /\ r.end = "done" => pc = "exit" /\ exitCode = <<0>>
            /\ r.end = "crash" => pc = "exit" /\ exitCode = <<1>>

C3_Witness ==
    /\ InStreamRun
    /\ pc = "exit"
    /\ Len(server.body) = 3
    /\ IsDeltaLine(server.body[1])
    /\ IsBadChunk(server.body[2])
    /\ IsDeltaLine(server.body[3])
    /\ stdout = TextOf(server.body[1])[3].c \o TextOf(server.body[3])[3].c
    /\ stdout # <<>>
    /\ exitCode = <<0>>

OneRequest ==
    /\ Len(requests) = 1
    /\ requests[1].method \in {"POST", "GET"}
    /\ requests[1].method = "POST" <=> requests[1].data # <<>>
    /\ requests[1].data # <<>> <=> cmd \in PayloadCommands
    /\ requests[1].authorization = <<"Bearer", SP, key>>

\* C6 as stated: video prints the URL of the escaped-quote attribute if the
\* payload has one, else that of the plain-quote attribute, else no URL and
\* the diagnostic with the tail of the payload, and does not fail.
C6_Claim ==
    (cmd = "video" /\ pc = "exit" /\ Answered2xx) =>
        LET payload == DecodeReplace(Body)
            esc == SearchVideoEscaped(payload)
            plain == SearchVideoPlain(payload)
        IN  IF esc # <<>>
            THEN StartsWith(stdout, <<"Video URL:", SP>> \o esc \o <<NL>>)
            ELSE IF plain # <<>>
                 THEN StartsWith(stdout, <<"Video URL:", SP>> \o plain \o <<NL>>)
                 ELSE /\ ~Contains(stdout, "Video URL:")
                      /\ EndsWith(stderr, <<MSG_NO_URL, NL>>
                                              \o LastChars(payload, TailLen) \o <<NL>>)
                      /\ exitCode = <<0>>

\* C7: models prints one line per entry of `data`, the entry's id, in
\* response order, when every entry has an id; no `data`, no line.
C7_ModelsPrintsIdsInOrder ==
    ( /\ cmd = "models"
      /\ pc = "exit"
      /\ result # <<>>
      /\ result[1].k \in {"models", "object"}
      /\ \A i \in 1..Len(result[1].ids) : result[1].ids[i].has_id ) =>
        /\ stdout = Flatten([i \in 1..Len(result[1].ids) |->
                                 result[1].ids[i].id \o <<NL>>])
        /\ exitCode = <<0>>

C7_Witness ==
    /\ cmd = "models"
    /\ pc = "exit"
    /\ result # <<>>
    /\ Len(result[1].ids) = 2
    /\ stdout = <<"g", "3", NL, "m", NL>>

\* C8 as stated: video writes a progress value only when its trimmed text is
\* not empty and differs from the last one written: the same trimmed text is
\* never written twice in a row.
C8_Claim ==
    [][(pc = "video" /\ pc' = "video" /\ stderr' # stderr) =>
           (last_progress' # <<>> /\ last_progress' # last_progress)]_vars

\* C9: streaming chat and file: once `data: [DONE]` was read nothing more is
\* read or printed; the output ends with the newline of the sentinel.
C9_NothingReadAfterDone ==
    InStreamRun =>
        \A i \in 1..pos :
            IsSentinel(server.body[i]) =>
                /\ pos = i
                /\ pc = "exit"
                /\ exitCode = <<0>>
                /\ stdout = RunOf(SubSeq(server.body, 1, i - 1)).out \o <<NL>>

C9_Witness ==
    /\ InStreamRun
    /\ pc = "exit"
    /\ pos = 2
    /\ Len(server.body) = 3
    /\ IsDeltaLine(server.body[1])
    /\ IsSentinel(server.body[2])
    /\ IsDeltaLine(server.body[3])
    /\ stdout = TextOf(server.body[1])[3].c \o <<NL>>

===========================================================================
